---- MODULE Spec2Model ----
(***************************************************************************)
(* Model of install/extract_text_from_image.py: one invocation of main(),  *)
(* from the argument check to the exit code, with the line reconstruction  *)
(* (sort by (y center, x min), grouping walk, joins) computed as the code  *)
(* computes it.                                                            *)
(*                                                                         *)
(* Numbers.  Coordinates are integers.  get_y_center is the true mean      *)
(* sum/len of the four y coordinates; it is kept exactly as an integer in  *)
(* units of 1/YScale pixel (YScale = 4 = number of points of a bbox), and  *)
(* y_tolerance is scaled by the same factor where the two are compared.    *)
(* Text is a sequence of one-character strings.                            *)
(***************************************************************************)
EXTENDS Integers, Sequences, FiniteSets

VARIABLES
    pc,               \* position in main()
    argv_len,         \* len(sys.argv)
    path_exists,      \* os.path.exists(image_path)
    results,          \* reader.readtext(image_path)
    sorted_results,   \* line 71
    line_groups,      \* lines 74-94
    extracted_lines,  \* lines 97-102
    extracted_text,   \* line 105
    stdout,           \* characters written to sys.stdout
    stderr,           \* messages written to sys.stderr, in order
    exit_code,        \* {} while running, {c} once main() returned c
    trace             \* history: the steps taken so far, in order

vars == << pc, argv_len, path_exists, results, sorted_results, line_groups,
           extracted_lines, extracted_text, stdout, stderr, exit_code, trace >>

-----------------------------------------------------------------------------
(* Bounds of the model *)

MaxDetections == 3
MaxArgv == 3

(* Program constants *)

y_tolerance == 10
YScale == 4
EXIT_OK == 0
EXIT_FAIL == 1

-----------------------------------------------------------------------------
(* Inputs: what the engine may return *)

Rect(x, y) == << <<x, y>>, <<x + 10, y>>, <<x + 10, y + 5>>, <<x, y + 5>> >>

Bboxes ==
    { Rect(0, 0),                                       \* yc  2.5   xmin  0
      Rect(20, 0),                                      \* yc  2.5   xmin 20
      Rect(0, 10),                                      \* yc 12.5   xmin  0
      << <<20, 10>>, <<30, 10>>, <<30, 15>>, <<20, 16>> >>,  \* yc 12.75 xmin 20
      << <<0, 20>>, <<10, 21>>, <<10, 25>>, <<0, 24>> >> }   \* yc 22.5  xmin  0

Texts == { <<"H", "i">>, <<" ">> }

Confidences == { 90 }

Detections == Bboxes \X Texts \X Confidences

RECURSIVE SeqsUpTo(_, _)
SeqsUpTo(S, n) ==
    IF n = 0 THEN { <<>> }
    ELSE LET shorter == SeqsUpTo(S, n - 1)
         IN  shorter \cup { Append(s, d) : s \in { t \in shorter : Len(t) = n - 1 }, d \in S }

EngineOutputs == SeqsUpTo(Detections, MaxDetections)

EngineErrors == { "RuntimeError: model load failed" }

-----------------------------------------------------------------------------
(* Helpers of the line reconstruction *)

abs(n) == IF n < 0 THEN -n ELSE n

RECURSIVE sum(_)
sum(s) == IF s = <<>> THEN 0 ELSE Head(s) + sum(Tail(s))

RECURSIVE min(_)
min(s) == IF Len(s) = 1 THEN s[1]
          ELSE LET m == min(Tail(s)) IN IF s[1] <= m THEN s[1] ELSE m

\* sum(y_coords) / len(y_coords), in units of 1/YScale
get_y_center(bbox) ==
    LET y_coords == [i \in 1..Len(bbox) |-> bbox[i][2]]
    IN  (sum(y_coords) * YScale) \div Len(y_coords)

get_x_min(bbox) ==
    LET x_coords == [i \in 1..Len(bbox) |-> bbox[i][1]]
    IN  min(x_coords)

sort_key_x_first(r) == << get_x_min(r[1]), get_y_center(r[1]) >>

sort_key_y_only(r) == << get_y_center(r[1]), 0 >>

\* key=lambda r: (get_y_center(r[0]), get_x_min(r[0]))
sort_key(r) == << get_y_center(r[1]), get_x_min(r[1]) >>

\* Python's tuple comparison k1 < k2 on pairs of numbers
TupleLess(k1, k2) == \/ k1[1] < k2[1]
                     \/ k1[1] = k2[1] /\ k1[2] < k2[2]

\* sorted() is stable: r goes after every element whose key is not greater
RECURSIVE InsertStable(_, _)
InsertStable(s, r) ==
    IF s = <<>> THEN << r >>
    ELSE IF TupleLess(sort_key(r), sort_key(Head(s)))
         THEN << r >> \o s
         ELSE << Head(s) >> \o InsertStable(Tail(s), r)

RECURSIVE SortedFrom(_, _)
SortedFrom(acc, rest) ==
    IF rest = <<>> THEN acc
    ELSE SortedFrom(InsertStable(acc, Head(rest)), Tail(rest))

sorted_unsorted(rs) == rs

sorted(rs) == SortedFrom(<<>>, rs)

is_new_line_geq(current_y, last_y) ==
    abs(current_y - last_y) >= y_tolerance * YScale

\* abs(current_y - last_y) > y_tolerance
is_new_line(current_y, last_y) ==
    abs(current_y - last_y) > y_tolerance * YScale

\* One iteration of the loop of lines 78-90.  The loop state is
\* [groups, line, last_y]; last_y is <<>> for None and <<y>> otherwise.
LoopBody(st, r) ==
    LET current_y == get_y_center(r[1])
        split == /\ st.last_y # <<>>
                 /\ is_new_line(current_y, st.last_y[1])
                 /\ st.line # <<>>
    IN  [ groups |-> IF split THEN Append(st.groups, st.line) ELSE st.groups,
          line   |-> Append(IF split THEN <<>> ELSE st.line, r),
          last_y |-> << current_y >> ]

RECURSIVE Loop(_, _)
Loop(st, rest) ==
    IF rest = <<>> THEN st ELSE Loop(LoopBody(st, Head(rest)), Tail(rest))

add_last_line_dropped(groups, current_line) == groups

\* if current_line: line_groups.append(current_line)
add_last_line(groups, current_line) ==
    IF current_line # <<>> THEN Append(groups, current_line) ELSE groups

group_into_lines(srt) ==
    LET st == Loop([groups |-> <<>>, line |-> <<>>, last_y |-> <<>>], srt)
    IN  add_last_line(st.groups, st.line)

\* sep.join(parts) on sequences of characters
RECURSIVE join(_, _)
join(sep, parts) ==
    IF parts = <<>> THEN <<>>
    ELSE IF Len(parts) = 1 THEN parts[1]
    ELSE parts[1] \o sep \o join(sep, Tail(parts))

RECURSIVE extract_lines(_)
extract_lines(groups) ==
    IF groups = <<>> THEN <<>>
    ELSE LET line_group == Head(groups)
             line_text_parts == [i \in 1..Len(line_group) |-> line_group[i][2]]
             rest == extract_lines(Tail(groups))
         IN  IF line_text_parts # <<>>
             THEN << join(<<" ">>, line_text_parts) >> \o rest
             ELSE rest

Whitespace == { " ", "\t", "\n", "\r" }

RECURSIVE lstrip(_)
lstrip(s) == IF s # <<>> /\ Head(s) \in Whitespace THEN lstrip(Tail(s)) ELSE s

RECURSIVE rstrip(_)
rstrip(s) == IF s # <<>> /\ s[Len(s)] \in Whitespace
             THEN rstrip(SubSeq(s, 1, Len(s) - 1)) ELSE s

strip_nothing(s) == s

\* str.strip(): leading and trailing whitespace removed
strip(s) == rstrip(lstrip(s))

\* print(text): the text, then the end-of-line print() appends
print(out, text) == out \o text \o << "\n" >>

write_error_dropped(err, message) == err

\* sys.stderr.write(f"{message}\n")
write_error(err, message) == Append(err, message \o "\n")

-----------------------------------------------------------------------------
(* main() *)

Init ==
    /\ pc = "check_args"
    /\ argv_len \in 1..MaxArgv
    /\ path_exists \in BOOLEAN
    /\ results = <<>>
    /\ sorted_results = <<>>
    /\ line_groups = <<>>
    /\ extracted_lines = <<>>
    /\ extracted_text = <<>>
    /\ stdout = <<>>
    /\ stderr = <<>>
    /\ exit_code = {}
    /\ trace = <<>>

Return(code, step) ==
    /\ pc' = "done"
    /\ exit_code' = { code }
    /\ trace' = Append(trace, step)

Goto(label, step) ==
    /\ pc' = label
    /\ trace' = Append(trace, step)
    /\ UNCHANGED exit_code

\* lines 18-22
CheckArgs ==
    /\ pc = "check_args"
    /\ \/ /\ argv_len # 2
          /\ stderr' = write_error(stderr, "Usage: extract_text_from_image.py <image_path>")
          /\ Return(EXIT_FAIL, "usage_error")
       \/ /\ argv_len = 2
          /\ Goto("check_file", "args_ok")
          /\ UNCHANGED stderr
    /\ UNCHANGED << argv_len, path_exists, results, sorted_results, line_groups,
                    extracted_lines, extracted_text, stdout >>

CheckFileFallsThrough ==
    /\ pc = "check_file"
    /\ \/ /\ ~path_exists
          /\ stderr' = write_error(stderr, "Error: Image file does not exist: <image_path>")
          /\ Goto("import", "file_missing")
       \/ /\ path_exists
          /\ Goto("import", "file_ok")
          /\ UNCHANGED stderr
    /\ UNCHANGED << argv_len, path_exists, results, sorted_results, line_groups,
                    extracted_lines, extracted_text, stdout >>

\* lines 25-27
CheckFile ==
    /\ pc = "check_file"
    /\ \/ /\ ~path_exists
          /\ stderr' = write_error(stderr, "Error: Image file does not exist: <image_path>")
          /\ Return(EXIT_FAIL, "file_missing")
       \/ /\ path_exists
          /\ Goto("import", "file_ok")
          /\ UNCHANGED stderr
    /\ UNCHANGED << argv_len, path_exists, results, sorted_results, line_groups,
                    extracted_lines, extracted_text, stdout >>

\* lines 29-34
ImportEasyocr ==
    /\ pc = "import"
    /\ \/ /\ stderr' = write_error(stderr,
                "Error: easyocr module not found. Please install it with: pip install easyocr")
          /\ Return(EXIT_FAIL, "import_error")
       \/ /\ Goto("reader", "import_ok")
          /\ UNCHANGED stderr
    /\ UNCHANGED << argv_len, path_exists, results, sorted_results, line_groups,
                    extracted_lines, extracted_text, stdout >>

\* lines 115-117
ExceptionHandler(e, step) ==
    /\ stderr' = write_error(stderr, "Error: EasyOCR text extraction failed: " \o e)
    /\ Return(EXIT_FAIL, step)

\* lines 45-49, and 115-117 when the constructor raises
CreateReader ==
    /\ pc = "reader"
    /\ \/ \E e \in EngineErrors : ExceptionHandler(e, "reader_failed")
       \/ /\ Goto("readtext", "reader_ok")
          /\ UNCHANGED stderr
    /\ UNCHANGED << argv_len, path_exists, results, sorted_results, line_groups,
                    extracted_lines, extracted_text, stdout >>

\* line 52, and 115-117 when readtext raises
ReadText ==
    /\ pc = "readtext"
    /\ \/ /\ \E e \in EngineErrors : ExceptionHandler(e, "readtext_failed")
          /\ UNCHANGED results
       \/ /\ \E rs \in EngineOutputs : results' = rs
          /\ Goto("reconstruct", "readtext_ok")
          /\ UNCHANGED stderr
    /\ UNCHANGED << argv_len, path_exists, sorted_results, line_groups,
                    extracted_lines, extracted_text, stdout >>

\* lines 58-105
Reconstruct ==
    /\ pc = "reconstruct"
    /\ sorted_results' = sorted(results)
    /\ line_groups' = group_into_lines(sorted_results')
    /\ extracted_lines' = extract_lines(line_groups')
    /\ extracted_text' = join(<<"\n">>, extracted_lines')
    /\ Goto("emit", "reconstruct")
    /\ UNCHANGED << argv_len, path_exists, results, stdout, stderr >>

NoTextFoundWithMessage ==
    /\ pc = "emit"
    /\ strip(extracted_text) = <<>>
    /\ stderr' = write_error(stderr, "Error: no text found")
    /\ Return(EXIT_FAIL, "no_text")
    /\ UNCHANGED << argv_len, path_exists, results, sorted_results, line_groups,
                    extracted_lines, extracted_text, stdout >>

\* lines 107-109
NoTextFound ==
    /\ pc = "emit"
    /\ strip(extracted_text) = <<>>
    /\ Return(EXIT_FAIL, "no_text")
    /\ UNCHANGED << argv_len, path_exists, results, sorted_results, line_groups,
                    extracted_lines, extracted_text, stdout, stderr >>

\* lines 111-113
PrintText ==
    /\ pc = "emit"
    /\ strip(extracted_text) # <<>>
    /\ stdout' = print(stdout, extracted_text)
    /\ Return(EXIT_OK, "print")
    /\ UNCHANGED << argv_len, path_exists, results, sorted_results, line_groups,
                    extracted_lines, extracted_text, stderr >>

Next ==
    \/ CheckArgs
    \/ CheckFile
    \/ ImportEasyocr
    \/ CreateReader
    \/ ReadText
    \/ Reconstruct
    \/ NoTextFound
    \/ PrintText

Spec == Init /\ [][Next]_vars

-----------------------------------------------------------------------------
(* Vocabulary of the properties *)

Happened(step) == \E i \in DOMAIN trace : trace[i] = step

Reconstructed == Happened("reconstruct")

Done == pc = "done"

RECURSIVE Flatten(_)
Flatten(groups) ==
    IF groups = <<>> THEN <<>> ELSE Head(groups) \o Flatten(Tail(groups))

RECURSIVE TotalSize(_)
TotalSize(groups) ==
    IF groups = <<>> THEN 0 ELSE Len(Head(groups)) + TotalSize(Tail(groups))

Occurrences(s, d) == Cardinality({ i \in DOMAIN s : s[i] = d })

SameMultiset(s, t) == \A d \in Detections : Occurrences(s, d) = Occurrences(t, d)

\* the group holding position p of Flatten(groups), and the place inside it
RECURSIVE GroupOf(_, _)
GroupOf(groups, p) ==
    IF p <= Len(Head(groups)) THEN 1
    ELSE 1 + GroupOf(Tail(groups), p - Len(Head(groups)))

YC(d) == get_y_center(d[1])
XMin(d) == get_x_min(d[1])
Tol == y_tolerance * YScale

-----------------------------------------------------------------------------
\* C1: after the grouping walk of a non-empty detection list the line groups,
\* concatenated, are a permutation of the input (same multiset: nothing is
\* duplicated, nothing dropped), no group is empty and the group sizes add up
\* to the number of input detections; an empty list gives no line group.
C1_EveryDetectionInExactlyOneGroup ==
    Reconstructed =>
        /\ SameMultiset(Flatten(line_groups), results)
        /\ TotalSize(line_groups) = Len(results)
        /\ \A g \in DOMAIN line_groups : line_groups[g] # <<>>
        /\ results = <<>> => line_groups = <<>>
        /\ results # <<>> => line_groups # <<>>

C1_Witness ==
    /\ Reconstructed
    /\ Len(results) = MaxDetections
    /\ Len(line_groups) = 2
    /\ \E i, j \in DOMAIN results : i # j /\ results[i] = results[j]

-----------------------------------------------------------------------------
\* C2: in the sequence sorted by (yCenter, xMin), two consecutive detections
\* are in the same line group if and only if their yCenter values differ by
\* at most y_tolerance (exactly y_tolerance stays on the line); the test is
\* against the immediate predecessor, so a chain drifts inside one group.
C2_SameLineIffWithinToleranceOfPredecessor ==
    Reconstructed =>
        /\ Flatten(line_groups) = sorted_results
        /\ \A i \in 1..(Len(sorted_results) - 1) :
              LET a == sorted_results[i]
                  b == sorted_results[i + 1]
              IN  /\ \/ YC(a) < YC(b)
                     \/ YC(a) = YC(b) /\ XMin(a) <= XMin(b)
                  /\ (GroupOf(line_groups, i) = GroupOf(line_groups, i + 1))
                        <=> (abs(YC(b) - YC(a)) <= Tol)

\* a drifting chain: one group, neighbours exactly y_tolerance apart, first
\* and last further apart than y_tolerance
C2_Witness ==
    /\ Reconstructed
    /\ Len(line_groups) = 1
    /\ Len(sorted_results) = 3
    /\ YC(sorted_results[2]) - YC(sorted_results[1]) = Tol
    /\ YC(sorted_results[3]) - YC(sorted_results[1]) > Tol

\* C4: of two detections whose yCenter values differ by more than
\* y_tolerance, the one with the smaller yCenter is at the earlier position
\* of the final line sequence (an earlier line, or earlier in the same line).
C4_TopToBottom ==
    Reconstructed =>
        LET F == Flatten(line_groups)
        IN  /\ SameMultiset(F, results)
            /\ Len(extracted_lines) = Len(line_groups)
            /\ \A p, q \in DOMAIN F :
                  YC(F[p]) + Tol < YC(F[q]) =>
                      /\ p < q
                      /\ GroupOf(line_groups, p) <= GroupOf(line_groups, q)

\* supplied bottom first, and the two end up on different lines
C4_Witness ==
    /\ Reconstructed
    /\ Len(line_groups) >= 2
    /\ \E i, j \in DOMAIN results :
          i < j /\ YC(results[i]) > YC(results[j]) + Tol

-----------------------------------------------------------------------------
Injective(f) == \A i, j \in DOMAIN f : f[i] = f[j] => i = j

PermutationsOf(s) ==
    { [i \in DOMAIN s |-> s[f[i]]] :
        f \in { g \in [DOMAIN s -> DOMAIN s] : Injective(g) } }

\* C3: each output line is the texts of its line group joined left to right:
\* the text of a detection with a smaller xMin comes earlier in the line than
\* the text of one with a larger xMin, i.e. the line is the join of the
\* group's texts in some order of non-decreasing xMin.
C3_LeftToRightWithinLine ==
    Reconstructed =>
        /\ Len(extracted_lines) = Len(line_groups)
        /\ \A g \in DOMAIN line_groups :
              \E p \in PermutationsOf(line_groups[g]) :
                  /\ \A i, j \in DOMAIN p : i < j => XMin(p[i]) <= XMin(p[j])
                  /\ extracted_lines[g] = join(<<" ">>, [i \in DOMAIN p |-> p[i][2]])

LinesOf(rs) == extract_lines(group_into_lines(sorted(rs)))

OrderIndependent ==
    \A p \in PermutationsOf(results) :
        LET lines == LinesOf(p)
        IN  /\ lines = extracted_lines
            /\ join(<<"\n">>, lines) = extracted_text

\* detections that tie on both sort keys carry the same text
TiesShareText(rs) ==
    \A i, j \in DOMAIN rs :
        (YC(rs[i]) = YC(rs[j]) /\ XMin(rs[i]) = XMin(rs[j])) => rs[i][2] = rs[j][2]

\* C5 as stated: every reordering of the input list gives the identical
\* Extracted Document (same lines, same text order inside each line).
C5_AnyOrderSameDocument ==
    pc = "emit" => OrderIndependent

\* C5 amended: every reordering of the input list gives the identical
\* Extracted Document provided detections with equal (yCenter, xMin) have
\* equal text; the sort is stable, so such ties come out in input order.
C5_AnyOrderSameDocumentUnlessTies ==
    (pc = "emit" /\ TiesShareText(results)) => OrderIndependent

C5_Witness ==
    /\ pc = "emit"
    /\ TiesShareText(results)
    /\ Len(results) = MaxDetections
    /\ results # sorted_results
    /\ \E i, j \in DOMAIN results : results[i][2] # results[j][2]

\* C6: two detections with equal yCenter and different xMin are in one line
\* group, the smaller xMin first; supplied alone, in either order, they give
\* the single line "<text of smaller xMin> <text of larger xMin>".
C6_EqualYMergedLeftToRight ==
    Reconstructed =>
        LET F == Flatten(line_groups)
        IN  /\ SameMultiset(F, results)
            /\ \A p, q \in DOMAIN F :
                  (YC(F[p]) = YC(F[q]) /\ XMin(F[p]) < XMin(F[q])) =>
                      /\ p < q
                      /\ GroupOf(line_groups, p) = GroupOf(line_groups, q)
            /\ \A lo, hi \in Detections :
                  ( /\ results \in { <<lo, hi>>, <<hi, lo>> }
                    /\ YC(lo) = YC(hi)
                    /\ XMin(lo) < XMin(hi) ) =>
                      /\ extracted_lines = << lo[2] \o <<" ">> \o hi[2] >>
                      /\ extracted_text = lo[2] \o <<" ">> \o hi[2]

\* the pair supplied right to left
C6_Witness ==
    /\ Reconstructed
    /\ Len(results) = 2
    /\ YC(results[1]) = YC(results[2])
    /\ XMin(results[1]) > XMin(results[2])
    /\ results[1][2] # results[2][2]

-----------------------------------------------------------------------------
EngineReturned == Happened("readtext_ok")

HasVisibleCharacter(text) == \E i \in DOMAIN text : text[i] \notin Whitespace

\* one line per line group in group order, member texts joined by one
\* space, lines joined by one newline
DocumentOfGroups ==
    join(<<"\n">>,
         [g \in DOMAIN line_groups |->
             join(<<" ">>, [i \in DOMAIN line_groups[g] |-> line_groups[g][i][2]])])

ExitZeroIffVisibleText ==
    /\ exit_code \in { {EXIT_OK}, {EXIT_FAIL} }
    /\ exit_code = {EXIT_OK} <=> HasVisibleCharacter(extracted_text)
    /\ extracted_text = DocumentOfGroups

\* C7 as stated: with one argument, an existing file and an engine that
\* returns, the exit code is 0 iff the document has a non-whitespace
\* character, and then stdout is exactly the document and stderr is empty.
C7_StdoutIsExactlyTheDocument ==
    (Done /\ argv_len = 2 /\ path_exists /\ EngineReturned) =>
        /\ ExitZeroIffVisibleText
        /\ exit_code = {EXIT_OK} => (stdout = extracted_text /\ stderr = <<>>)

\* C7 amended: ... and then stdout is the document followed by one
\* terminating newline, and stderr is empty.
C7_StdoutIsTheDocumentAndNewline ==
    (Done /\ argv_len = 2 /\ path_exists /\ EngineReturned) =>
        /\ ExitZeroIffVisibleText
        /\ exit_code = {EXIT_OK} =>
              (stdout = extracted_text \o <<"\n">> /\ stderr = <<>>)

\* two lines, one of them of two texts
C7_Witness ==
    /\ Done
    /\ exit_code = {EXIT_OK}
    /\ Len(line_groups) = 2
    /\ Len(results) = 3
    /\ stdout # <<>>

EmptyResult ==
    /\ EngineReturned
    /\ \/ results = <<>>
       \/ ~HasVisibleCharacter(extracted_text)

\* C8: zero detections, or an empty or all-whitespace document, end the run
\* with exit code 1 and nothing on stdout and nothing on stderr; every other
\* run that ends with exit code 1 has a message on stderr.
C8_EmptyResultIsSilent ==
    Done =>
        /\ EmptyResult => (exit_code = {EXIT_FAIL} /\ stdout = <<>> /\ stderr = <<>>)
        /\ (exit_code = {EXIT_FAIL} /\ ~EmptyResult) => stderr # <<>>

\* detections were returned, all of them blank
C8_Witness ==
    /\ Done
    /\ EngineReturned
    /\ results # <<>>
    /\ extracted_text # <<>>
    /\ exit_code = {EXIT_FAIL}
    /\ stderr = <<>>

Failed ==
    \/ Happened("usage_error")
    \/ Happened("file_missing")
    \/ Happened("import_error")
    \/ Happened("reader_failed")
    \/ Happened("readtext_failed")

\* C9: a wrong argument count, a missing file, a failed import and an
\* exception of the engine each end the run with exit code 1, a message on
\* stderr and nothing on stdout; no run writes both stdout and stderr.
C9_FailuresGoToStderrOnly ==
    /\ ~(stdout # <<>> /\ stderr # <<>>)
    /\ Done =>
          /\ argv_len # 2 => Happened("usage_error")
          /\ (argv_len = 2 /\ ~path_exists) => Happened("file_missing")
          /\ Failed => /\ exit_code = {EXIT_FAIL}
                       /\ Len(stderr) = 1
                       /\ stdout = <<>>

C9_Witness ==
    /\ Done
    /\ Happened("reader_failed")
    /\ stderr # <<>>

-----------------------------------------------------------------------------
Rank(step) ==
    CASE step \in { "args_ok", "usage_error" }         -> 1
      [] step \in { "file_ok", "file_missing" }        -> 2
      [] step \in { "import_ok", "import_error" }      -> 3
      [] step \in { "reader_ok", "reader_failed" }     -> 4
      [] step \in { "readtext_ok", "readtext_failed" } -> 5
      [] step = "reconstruct"                          -> 6
      [] step \in { "no_text", "print" }               -> 7

EngineSteps == { "import_ok", "import_error", "reader_ok", "reader_failed",
                 "readtext_ok", "readtext_failed" }

FinalSteps == { "usage_error", "file_missing", "import_error", "reader_failed",
                "readtext_failed", "no_text", "print" }

Before(step, i) == \E j \in 1..(i - 1) : trace[j] = step

\* C10: the steps of a run are strictly ordered and none is repeated; the
\* library is imported and the engine loaded and invoked at most once, and
\* only after the argument check and the file check have passed; a usage
\* error, a missing file or an engine failure is the last step of its run:
\* no import after the first two, no second engine call, no reconstruction
\* and no output on stdout after the last.
C10_StepsOrderedNoRetry ==
    /\ \A i, j \in DOMAIN trace : i < j => Rank(trace[i]) < Rank(trace[j])
    /\ \A i \in DOMAIN trace :
          /\ trace[i] \in EngineSteps => (Before("args_ok", i) /\ Before("file_ok", i))
          /\ trace[i] \in FinalSteps => (i = Len(trace) /\ Done)
    /\ (Happened("reader_failed") \/ Happened("readtext_failed")) =>
          /\ ~Reconstructed
          /\ line_groups = <<>>
          /\ stdout = <<>>

C10_Witness ==
    /\ Done
    /\ Happened("readtext_failed")
    /\ Before("reader_ok", Len(trace))

====
